---- MODULE Spec2Model ----
(***************************************************************************)
(* StockFactorScreener: the earnings engine (01_Src/EarningsEngine.py),    *)
(* the cross-sectional z-score normaliser and the scoring passes           *)
(* (ZScoreCalculator.py) with the metric classes they read                 *)
(* (01_Src/QualityMetrics.py).                                             *)
(*                                                                         *)
(* The functions of both modules are called by an application that is not  *)
(* part of the sources.  The model is a caller that is idle, calls one     *)
(* function with arguments drawn from small sets, observes how the call    *)
(* ends (a returned value or a raised exception) and goes back to idle.    *)
(*                                                                         *)
(* Python values: a float is the fraction <<n, d>> in lowest terms with    *)
(* d > 0, float('nan') is <<0, 0>>; a list is a sequence; an argument that *)
(* may be None is a record with a none flag; an f-string message is the    *)
(* sequence of its literal pieces and interpolated values (as strings).    *)
(***************************************************************************)
EXTENDS Integers, Sequences, FiniteSets, TLC

VARIABLES pc, op, args, result, av_calls

vars == <<pc, op, args, result, av_calls>>

None == "None"

(***************************************************************************)
(* Bounds of the model.                                                    *)
(***************************************************************************)
MaxLen == 3          \* longest annual series / earnings list / growth list
MaxHorizon == 3      \* largest earnings_period_req
MaxQuarters == 5     \* longest quarterly series
MaxUniverse == 3     \* most tickers in a cross-sectional column
MantBits == 3        \* significand bits of the modelled binary floats (float64: 53)

Tickers == {"AAA", "BBB"}

(***************************************************************************)
(* Generic helpers.                                                        *)
(***************************************************************************)
Min(a, b) == IF a <= b THEN a ELSE b

Abs(x) == IF x < 0 THEN -x ELSE x

Range(s) == {s[i] : i \in DOMAIN s}

SeqsUpTo(S, n) == UNION {[1..k -> S] : k \in 0..n}

(***************************************************************************)
(* Floats as fractions.                                                    *)
(***************************************************************************)
RECURSIVE GCD(_, _)
GCD(a, b) == IF b = 0 THEN a ELSE GCD(b, a % b)

NaN == <<0, 0>>

\* the fraction n/d, d # 0, in lowest terms with a positive denominator
Frac(n, d) ==
  LET g == GCD(Abs(n), Abs(d))
      s == IF d < 0 THEN -1 ELSE 1 IN
  <<s * (n \div g), s * (d \div g)>>

R(x) == <<x, 1>>

\* math.isnan / pd.isna on a float
isnan(x) == x = NaN

RAdd(x, y) == IF isnan(x) \/ isnan(y) THEN NaN ELSE Frac(x[1] * y[2] + y[1] * x[2], x[2] * y[2])

RSub(x, y) == IF isnan(x) \/ isnan(y) THEN NaN ELSE Frac(x[1] * y[2] - y[1] * x[2], x[2] * y[2])

RMul(x, y) == IF isnan(x) \/ isnan(y) THEN NaN ELSE Frac(x[1] * y[1], x[2] * y[2])

\* x / y for y # 0
RDiv(x, y) == IF isnan(x) \/ isnan(y) THEN NaN ELSE Frac(x[1] * y[2], x[2] * y[1])

RAbs(x) == <<Abs(x[1]), x[2]>>

RIsZero(x) == ~isnan(x) /\ x[1] = 0

\* -1, 0 or 1
RSign(x) == IF x[1] > 0 THEN 1 ELSE IF x[1] < 0 THEN -1 ELSE 0

\* [x for x in lst if not math.isnan(x)]
FilterNaN(lst) == SelectSeq(lst, LAMBDA x : ~isnan(x))

\* lst[:n] for n >= 0
Take(lst, n) == SubSeq(lst, 1, Min(n, Len(lst)))

\* sum(lst) of floats, left to right from 0
RECURSIVE SumSeq(_)
SumSeq(lst) == IF lst = <<>> THEN R(0) ELSE RAdd(SumSeq(SubSeq(lst, 1, Len(lst) - 1)), lst[Len(lst)])

IsPrefix(s, t) == Len(s) <= Len(t) /\ s = SubSeq(t, 1, Len(s))

(***************************************************************************)
(* How a call ends.                                                        *)
(***************************************************************************)
ReturnList(l) == [kind |-> "return", type |-> "list", list |-> l, num |-> NaN, exc |-> None, msg |-> <<>>]

ReturnFloat(x) == [kind |-> "return", type |-> "float", list |-> <<>>, num |-> x, exc |-> None, msg |-> <<>>]

ReturnNone == [kind |-> "return", type |-> "None", list |-> <<>>, num |-> NaN, exc |-> None, msg |-> <<>>]

Raise(e, m) == [kind |-> "raise", type |-> "None", list |-> <<>>, num |-> NaN, exc |-> e, msg |-> m]

Returned(r) == r.kind = "return"

ReturnedList(r) == r.kind = "return" /\ r.type = "list"

ReturnedFloat(r) == r.kind = "return" /\ r.type = "float"

\* an argument that may be None
NoData == [none |-> TRUE, list |-> <<>>]

Some(l) == [none |-> FALSE, list |-> l]

Raised(r) == r.kind = "raise"

\* the message of an exception names the ticker
NamesTicker(r, ticker) == ticker \in Range(r.msg)

(***************************************************************************)
(* get_earnings (EarningsEngine.py 180-373).                               *)
(*                                                                         *)
(* stock.financials.T is a function from the column names present to the   *)
(* column, all columns of one length (one row per fiscal year).  The       *)
(* secondary source, fetch_earnings_alpha_vantage, is a collaborator: what *)
(* it would return for the ticker (None or a list) is the argument av.     *)
(* The outcome is the pair of how the call ends and the number of calls    *)
(* made to the secondary source.                                           *)
(***************************************************************************)
Outcome(r, n) == [result |-> r, av_calls |-> n]

\* DataFrame.empty: no column or no row
DataFrameEmpty(df) == DOMAIN df = {} \/ \A c \in DOMAIN df : Len(df[c]) = 0

EnoughPrimary_strict(yf, earnings_period_req) == Len(yf) > earnings_period_req

\* lines 230 and 311: the primary source alone covers the requested periods
EnoughPrimary(yf, earnings_period_req) == Len(yf) >= earnings_period_req

PreferSecondary_orequal(av, yf) == Len(av) >= Len(yf)

\* lines 264 and 344: the secondary dataset is bigger than the primary one
PreferSecondary(av, yf) == Len(av) > Len(yf)

NoSecondary_unset(yf) == ReturnNone

\* lines 257 and 337: without secondary data, at least the primary data
NoSecondary(yf) == ReturnList(yf)

CleanSecondary_kept(av) == av

\* lines 260 and 340: the secondary list without its nan values
CleanSecondary(av) == FilterNaN(av)

\* lines 226-284: the 'Basic EPS' column reconciled with the secondary source
ReconcileEps(column, earnings_period_req, av) ==
  LET eps_basic_annual_yf == FilterNaN(column) IN
  IF EnoughPrimary(eps_basic_annual_yf, earnings_period_req)
    THEN Outcome(ReturnList(Take(eps_basic_annual_yf, earnings_period_req)), 0)
    ELSE \* fetch_earnings_alpha_vantage(..., "eps", "annual") is called
      IF av.none
        THEN Outcome(NoSecondary(eps_basic_annual_yf), 1)
        ELSE LET eps_basic_annual_av == CleanSecondary(av.list) IN
             IF PreferSecondary(eps_basic_annual_av, eps_basic_annual_yf)
               THEN IF Len(eps_basic_annual_av) >= earnings_period_req
                      THEN Outcome(ReturnList(Take(eps_basic_annual_av, earnings_period_req)), 1)
                      ELSE Outcome(ReturnList(Take(eps_basic_annual_av, Len(eps_basic_annual_av))), 1)
               ELSE Outcome(ReturnList(eps_basic_annual_yf), 1)

\* lines 307-367: the 'Net Income' column reconciled with the secondary source
ReconcileNetIncome(column, earnings_period_req, av) ==
  LET net_income_annual_yf == FilterNaN(column) IN
  IF EnoughPrimary(net_income_annual_yf, earnings_period_req)
    THEN Outcome(ReturnList(Take(net_income_annual_yf, earnings_period_req)), 0)
    ELSE \* fetch_earnings_alpha_vantage(..., "net_income", "annual") is called
      IF av.none
        THEN Outcome(NoSecondary(net_income_annual_yf), 1)
        ELSE LET net_income_annual_av == CleanSecondary(av.list) IN
             IF PreferSecondary(net_income_annual_av, net_income_annual_yf)
               THEN IF Len(net_income_annual_av) >= earnings_period_req
                      THEN Outcome(ReturnList(Take(net_income_annual_av, earnings_period_req)), 1)
                      ELSE Outcome(ReturnList(Take(net_income_annual_av, Len(net_income_annual_av))), 1)
               ELSE Outcome(ReturnList(net_income_annual_yf), 1)

\* the body of the try block, lines 201-370
get_earnings_try(stock, ticker, earnings_type, earnings_period_req, av) ==
  LET income_statement_annual == stock.financials IN
  IF DataFrameEmpty(income_statement_annual)
    THEN Outcome(Raise("NetIncomeCalcError",
           <<"No Annual Income Statement data found on Yahoo Finance (Ticker: ", ticker, ").">>), 0)
  ELSE IF earnings_type = "eps"
    THEN IF "Basic EPS" \in DOMAIN income_statement_annual
           THEN ReconcileEps(income_statement_annual["Basic EPS"], earnings_period_req, av)
           ELSE Outcome(Raise("EPSCalcError", <<"Cannot find 'Basic EPS' data for ", ticker, ".">>), 0)
  ELSE IF earnings_type = "net_income"
    THEN IF "Net Income" \in DOMAIN income_statement_annual
           THEN ReconcileNetIncome(income_statement_annual["Net Income"], earnings_period_req, av)
           ELSE Outcome(Raise("NetIncomeCalcError", <<"Cannot find 'Net Income' data for ", ticker, ".">>), 0)
  ELSE Outcome(ReturnNone, 0)   \* no branch taken: the function falls off its end

\* lines 372-373: except Exception -> NetIncomeCalcError wrapping the cause
WrapFetchError(r, ticker) ==
  Raise("NetIncomeCalcError", <<"Error fetching Earnings (", ticker, "): ">> \o r.msg)

get_earnings(stock, ticker, earnings_type, earnings_period_req, av) ==
  LET o == get_earnings_try(stock, ticker, earnings_type, earnings_period_req, av) IN
  IF Raised(o.result)
    THEN Outcome(WrapFetchError(o.result, ticker), o.av_calls)
    ELSE o

(***************************************************************************)
(* get_net_income (EarningsEngine.py 107-176) and calc_eps_ttm (377-417).  *)
(* stock.quarterly_financials.T is, like stock.financials.T, a function    *)
(* from the column names present to the column.                            *)
(***************************************************************************)
NET_INCOME_TTM_QUARTERS == 4

TRAILING_EPS_QUARTERS == 4

\* str.lower() on the reporting periods the caller passes
Lower(str) ==
  CASE str = "TTM" -> "ttm"
    [] str = "Annual" -> "annual"
    [] str = "Quarterly" -> "quarterly"
    [] OTHER -> str

TrailingSum_all(lst, quarters) == SumSeq(lst)

\* lines 149 and 412: sum(lst[:quarters])
TrailingSum(lst, quarters) == SumSeq(Take(lst, quarters))

\* lines 141 and 405: the quarterly list without its nan values
CleanQuarters(lst) == FilterNaN(lst)

get_net_income(stock, ticker, reporting_period) ==
  IF "ttm" = Lower(reporting_period)
    THEN LET income_statement_quart == stock.quarterly_financials IN
         IF "Net Income" \notin DOMAIN income_statement_quart
           THEN Raise("ValueError",
                  <<"Cannot calculate Net Income TTM! Net Income data is missing in the Quarterly Income Statement (Ticker: ",
                    ticker, ").">>)
           ELSE LET net_income_list == CleanQuarters(income_statement_quart["Net Income"]) IN
                IF Len(net_income_list) < NET_INCOME_TTM_QUARTERS
                  THEN Raise("ValueError",
                         <<"Cannot calculate Net Income TTM! Not enough Net Income Quarterly data is available (Ticker: ",
                           ticker, "). \n Data for at least ", "4", " quarters is required .">>)
                  ELSE ReturnFloat(TrailingSum(net_income_list, NET_INCOME_TTM_QUARTERS))
  ELSE IF "annual" = Lower(reporting_period)
    THEN LET income_statement_annual == stock.financials IN
         IF "Net Income" \notin DOMAIN income_statement_annual
           THEN Raise("ValueError",
                  <<"Cannot fetch Annual Net Income! Net Income data is missing in the Annual Income Statement (Ticker: ",
                    ticker, ").">>)
           ELSE LET net_income_list == FilterNaN(income_statement_annual["Net Income"]) IN
                IF Len(net_income_list) < 1
                  THEN Raise("ValueError",
                         <<"Cannot fetch Annual Net Income! No Net Income annual data is available in the Annual Income Statement (Ticker: ",
                           ticker, "). \n Data for at least ", "1", " year is required .">>)
                  ELSE ReturnFloat(net_income_list[1])
  ELSE ReturnNone   \* net_income is still None

\* the except clause (414-415) catches KeyError only, which nothing in the try
\* block raises once the column is known to be present
calc_eps_ttm(stock, ticker, trailing_eps_quarters) ==
  LET income_statement == stock.quarterly_financials IN
  IF "Basic EPS" \notin DOMAIN income_statement
    THEN Raise("EPSCalcError",
           <<"Cannot calculate Trailing EPS! EPS data is missing (Ticker: ", ticker, ").">>)
    ELSE LET basic_eps_list == CleanQuarters(income_statement["Basic EPS"]) IN
         IF Len(basic_eps_list) < trailing_eps_quarters
           THEN Raise("EPSCalcError",
                  <<"Cannot calculate Trailing EPS! Not enough EPS data for the last ",
                    ToString(trailing_eps_quarters), " quarters (Ticker: ", ticker, ").">>)
           ELSE ReturnFloat(TrailingSum(basic_eps_list, trailing_eps_quarters))

(***************************************************************************)
(* calc_earnings_growth (EarningsEngine.py 501-559).                       *)
(***************************************************************************)
MIN_EARNINGS_DATA_POINTS == 2

GrowthYoY_signed(current, previous) == RDiv(RSub(current, previous), previous)

GrowthYoY_reversed(current, previous) == RDiv(RSub(previous, current), RAbs(previous))

\* line 552, for a previous value other than zero
GrowthYoY(current, previous) == RDiv(RSub(current, previous), RAbs(previous))

RECURSIVE GrowthLoop_partial(_, _, _)
GrowthLoop_partial(earnings_list, i, acc) ==
  IF i > Len(earnings_list) - 1 \/ RIsZero(earnings_list[i + 1])
    THEN ReturnList(acc)
    ELSE GrowthLoop_partial(earnings_list, i + 1,
                            Append(acc, GrowthYoY(earnings_list[i], earnings_list[i + 1])))

\* lines 551-553 from index i (counted from 1) on, o_earnings_growths so far
\* in acc; a zero previous value makes the float division raise
RECURSIVE GrowthLoop(_, _, _)
GrowthLoop(earnings_list, i, acc) ==
  IF i > Len(earnings_list) - 1
    THEN ReturnList(acc)
    ELSE IF RIsZero(earnings_list[i + 1])
           THEN Raise("ZeroDivisionError", <<"float division by zero">>)
           ELSE GrowthLoop(earnings_list, i + 1,
                           Append(acc, GrowthYoY(earnings_list[i], earnings_list[i + 1])))

\* the body of the try block, lines 528-556
calc_earnings_growth_try(ticker, earnings_list) ==
  IF earnings_list.none
    THEN Raise("EarningsGrowthCalcError",
           <<"Cannot calculate Earnings Growth. No Earnings data available (Ticker: ", ticker, ").">>)
    ELSE LET available_data_periods == Len(earnings_list.list) IN
         IF available_data_periods < MIN_EARNINGS_DATA_POINTS
           THEN Raise("EarningsGrowthCalcError",
                  <<"Not enough data to calculate Earnings Growth (Ticker: ", ticker, "). At least ",
                    ToString(MIN_EARNINGS_DATA_POINTS), " periods are required.">>)
           ELSE GrowthLoop(earnings_list.list, 1, <<>>)

\* lines 558-559: except Exception -> EarningsGrowthCalcError wrapping the cause
calc_earnings_growth(ticker, earnings_list) ==
  LET r == calc_earnings_growth_try(ticker, earnings_list) IN
  IF Raised(r)
    THEN Raise("EarningsGrowthCalcError",
           <<"Error calculating Earnings Growth for ", ticker, ": ">> \o r.msg)
    ELSE r

(***************************************************************************)
(* calc_evar (EarningsEngine.py 421-497).  The result is the square root   *)
(* of the variance; it is kept as its radicand.                            *)
(***************************************************************************)
EARNINGS_GROWTH_MIN_DATA_POINTS == 2

ReturnSqrt(x) == [kind |-> "return", type |-> "sqrt", list |-> <<>>, num |-> x, exc |-> None, msg |-> <<>>]

\* np.mean of a list of at least one float
Mean(lst) == RDiv(SumSeq(lst), R(Len(lst)))

\* lines 478-482: the sum of the squared differences to the mean
RECURSIVE VarianceSum(_, _)
VarianceSum(lst, mean) ==
  IF lst = <<>>
    THEN R(0)
    ELSE LET d == RSub(lst[Len(lst)], mean) IN
         RAdd(VarianceSum(SubSeq(lst, 1, Len(lst) - 1), mean), RMul(d, d))

Variance_population(earnings_variance_sum, cnt) == RDiv(earnings_variance_sum, R(cnt))

\* line 486
Variance(earnings_variance_sum, cnt) == RDiv(earnings_variance_sum, R(cnt - 1))

\* the try block (464-497) raises nothing on finite floats
calc_evar(ticker, earnings_growths_yoy) ==
  IF earnings_growths_yoy.none
    THEN Raise("EVARCalcError",
           <<"Cannot calculcate EVAR. No Earnings Growth data available (Ticker: ", ticker, ").">>)
    ELSE LET earnings_growth_data_points_cnt == Len(earnings_growths_yoy.list) IN
         IF earnings_growth_data_points_cnt < EARNINGS_GROWTH_MIN_DATA_POINTS
           THEN Raise("EVARCalcError",
                  <<"Not enough Earnings Growth data to calculate EVAR for ", ticker, ". At least ",
                    ToString(EARNINGS_GROWTH_MIN_DATA_POINTS), " data points are required.">>)
           ELSE LET mean_earnings_growth == Mean(earnings_growths_yoy.list)
                    earnings_variance_sum == VarianceSum(earnings_growths_yoy.list, mean_earnings_growth)
                    variance == Variance(earnings_variance_sum, earnings_growth_data_points_cnt) IN
                ReturnSqrt(variance)

(***************************************************************************)
(* Binary floating point.  numpy computes the column statistics in float64 *)
(* and rounds every operation to the nearest float, ties to the even       *)
(* significand.  The model keeps this rounding with a significand of       *)
(* MantBits bits and an unbounded exponent; a float is still the fraction  *)
(* it stands for.                                                          *)
(***************************************************************************)
RECURSIVE Pow2(_)
Pow2(k) == IF k = 0 THEN 1 ELSE 2 * Pow2(k - 1)

\* a/d > 0 scaled by a power of two into [2^(MantBits-1), 2^MantBits):
\* <<a', d', e>> with a/d = (a'/d') * 2^e
RECURSIVE Scaled(_, _, _)
Scaled(a, d, e) ==
  IF a >= Pow2(MantBits) * d THEN Scaled(a, 2 * d, e + 1)
  ELSE IF a < Pow2(MantBits - 1) * d THEN Scaled(2 * a, d, e - 1)
  ELSE <<a, d, e>>

\* k * 2^e as a fraction
Ldexp(k, e) == IF e >= 0 THEN Frac(k * Pow2(e), 1) ELSE Frac(k, Pow2(-e))

\* the float nearest to the fraction x, ties to even
Round(x) ==
  IF isnan(x) \/ x[1] = 0 THEN x
  ELSE LET sc == Scaled(Abs(x[1]), x[2], 0)
           k == sc[1] \div sc[2]
           rem == sc[1] % sc[2]
           up == 2 * rem > sc[2] \/ (2 * rem = sc[2] /\ k % 2 = 1)
           m == IF up THEN k + 1 ELSE k IN
       Ldexp(RSign(x) * m, sc[3])

FAdd(x, y) == Round(RAdd(x, y))

FSub(x, y) == Round(RSub(x, y))

FMul(x, y) == Round(RMul(x, y))

\* x / y for y # 0
FDiv(x, y) == Round(RDiv(x, y))

\* a/d > 0 scaled by a power of four into [4^(MantBits-1), 4^MantBits)
RECURSIVE Scaled4(_, _, _)
Scaled4(a, d, e) ==
  IF a >= Pow2(2 * MantBits) * d THEN Scaled4(a, 4 * d, e + 1)
  ELSE IF a < Pow2(2 * MantBits - 2) * d THEN Scaled4(4 * a, d, e - 1)
  ELSE <<a, d, e>>

\* np.sqrt of a float x >= 0: the float nearest to the square root
FSqrt(x) ==
  IF isnan(x) \/ x[1] = 0 THEN x
  ELSE LET sc == Scaled4(x[1], x[2], 0)
           k == CHOOSE j \in Pow2(MantBits - 1)..(Pow2(MantBits) - 1) :
                  /\ j * j * sc[2] <= sc[1]
                  /\ (j + 1) * (j + 1) * sc[2] > sc[1]
           half == (2 * k + 1) * (2 * k + 1) * sc[2]
           up == 4 * sc[1] > half \/ (4 * sc[1] = half /\ k % 2 = 1)
           m == IF up THEN k + 1 ELSE k IN
       Ldexp(m, sc[3])

\* np.add.reduce over fewer than 8 floats: one accumulator, left to right
RECURSIVE FSum(_)
FSum(arr) ==
  IF Len(arr) = 0 THEN R(0)
  ELSE IF Len(arr) = 1 THEN arr[1]
  ELSE FAdd(FSum(SubSeq(arr, 1, Len(arr) - 1)), arr[Len(arr)])

\* ndarray.mean() of at least one float
FMean(arr) == FDiv(FSum(arr), R(Len(arr)))

FStd_sample(arr) ==
  LET arrmean == FMean(arr)
      x == [i \in DOMAIN arr |-> FSub(arr[i], arrmean)]
      xx == [i \in DOMAIN arr |-> FMul(x[i], x[i])]
      ret == FDiv(FSum(xx), R(Len(arr) - 1)) IN
  FSqrt(ret)

\* ndarray.std(ddof=0) of at least one float: numpy's _var, then the root
FStd(arr) ==
  LET arrmean == FMean(arr)
      x == [i \in DOMAIN arr |-> FSub(arr[i], arrmean)]
      xx == [i \in DOMAIN arr |-> FMul(x[i], x[i])]
      ret == FDiv(FSum(xx), R(Len(arr))) IN
  FSqrt(ret)

(***************************************************************************)
(* _zscore (ZScoreCalculator.py 42-57).                                    *)
(***************************************************************************)
\* np.full_like(column, np.nan, dtype=float)
FullNaN(column) == [i \in DOMAIN column |-> NaN]

MIN_VALID_OBSERVATIONS == 2

zscore(column) ==
  LET valid == FilterNaN(column) IN   \* column[mask]
  IF Len(valid) < MIN_VALID_OBSERVATIONS
    THEN FullNaN(column)
    ELSE LET mu == FMean(valid)
             sigma == FStd(valid) IN
         IF RIsZero(sigma)
           THEN FullNaN(column)
           ELSE [i \in DOMAIN column |->
                   IF isnan(column[i]) THEN NaN ELSE FDiv(FSub(column[i], mu), sigma)]

(***************************************************************************)
(* The scoring passes (ZScoreCalculator.py 86-193).                        *)
(*                                                                         *)
(* An attribute value is a record: a float, None or a non-numeric object   *)
(* (a text such as 'n/a', a list).  A metric-group object is None or the   *)
(* function from its attribute names (class and instance attributes) to    *)
(* their values.  A stock is a record of its ticker and its group objects; *)
(* a group attribute the stock does not have is not in the record.  The    *)
(* dict a pass returns is a function from the tickers to the results.      *)
(***************************************************************************)
FloatV(x) == [kind |-> "float", num |-> x]

NoneV == [kind |-> "None", num |-> NaN]

TextV == [kind |-> "text", num |-> NaN]

NoObject == [none |-> TRUE, attrs |-> <<>>]

Object(attrs) == [none |-> FALSE, attrs |-> attrs]

\* getattr(obj, name, np.nan): None has none of the attributes read here
getattr(obj, name) ==
  IF obj.none \/ name \notin DOMAIN obj.attrs THEN FloatV(NaN) ELSE obj.attrs[name]

\* lines 34-39
nan_safe(value) == IF value.kind = "float" THEN value.num ELSE NaN

ReturnDict(d) == [kind |-> "return", type |-> "dict", list |-> d, num |-> NaN, exc |-> None, msg |-> <<>>]

ReturnedDict(r) == r.kind = "return" /\ r.type = "dict"

\* ZScoreResult(composite, MetricZVector(raw, zscores)), lines 64-76 and 189-192
ZScoreResult(composite, raw, zscores) == [composite |-> composite, raw |-> raw, zscores |-> zscores]

\* a dict filled in the order of the list: a later stock replaces the entry
\* of an earlier one with the same ticker
DictOf(tickers, entries) ==
  [t \in Range(tickers) |->
     entries[CHOOSE i \in DOMAIN tickers :
             tickers[i] = t /\ \A k \in DOMAIN tickers : tickers[k] = t => k <= i]]

NanMeanColumn_zero(col) ==
  IF Len(col) = 0 THEN NaN
  ELSE FDiv(FSum([j \in DOMAIN col |-> IF isnan(col[j]) THEN R(0) ELSE col[j]]), R(Len(col)))

\* np.nanmean of the z-scores of one ticker: the nan replaced by 0 and
\* summed row after row, divided by the number of values that are not nan
NanMeanColumn(col) ==
  LET arr == [j \in DOMAIN col |-> IF isnan(col[j]) THEN R(0) ELSE col[j]]
      cnt == Len(FilterNaN(col)) IN
  IF cnt = 0 THEN NaN ELSE FDiv(FSum(arr), R(cnt))

\* np.nanmean(z_np, axis=0) for a matrix of rows of length n (lines 117, 183)
nanmean0(z_np, n) == [i \in 1..n |-> NanMeanColumn([j \in DOMAIN z_np |-> z_np[j][i]])]

\* lines 170-193
generic_group_z(stocks, attr_group, fields) ==
  IF \E i \in DOMAIN stocks : attr_group \notin DOMAIN stocks[i]
    THEN \* getattr(s, attr_group) has no default
         Raise("AttributeError", <<"'Stock' object has no attribute '", attr_group, "'">>)
    ELSE
      LET tickers == [i \in DOMAIN stocks |-> stocks[i].ticker]
          raw_np == [j \in DOMAIN fields |->
                       [i \in DOMAIN stocks |-> nan_safe(getattr(stocks[i][attr_group], fields[j]))]]
          z_np == [j \in DOMAIN fields |-> zscore(raw_np[j])]
          composite == nanmean0(z_np, Len(stocks))
          Entry(i) == ZScoreResult(composite[i],
                                   [j \in DOMAIN fields |-> raw_np[j][i]],
                                   [j \in DOMAIN fields |-> z_np[j][i]]) IN
      ReturnDict(DictOf(tickers, [i \in DOMAIN stocks |-> Entry(i)]))

ProfitabilityFields_ctor == <<"gpoa", "roe", "roa", "cfoa", "gpmar">>

\* line 147
ProfitabilityFields == <<"gpoa_ttm", "roe_ttm", "roa_ttm", "cfoa", "gpmar_ttm">>

\* lines 157-163
GrowthFields == <<"gpoa_growth", "roe_growth", "roa_growth", "cfoa_growth", "gpmar_growth">>

\* lines 142-148
calc_profitability_z_scores(stocks) ==
  generic_group_z(stocks, "profitability_metrics", ProfitabilityFields)

\* lines 152-164
calc_growth_z_scores(stocks) ==
  generic_group_z(stocks, "growth_metrics", GrowthFields)

\* lines 100-103: the attributes read; lines 124-127 and 130-133 make them
\* the keys of the detail
ValueFields == <<"pe_trailing", "pe_forward", "ebit_to_tev", "pb_ratio">>

\* the ratios of lines 108-110, for which lower is better
InvertedFields == {"pe_trailing", "pe_forward", "pb_ratio"}

Invert_none(col) == col

\* np.multiply(col, -1), lines 108-110
Invert(col) == [i \in DOMAIN col |-> RMul(col[i], R(-1))]

\* lines 86-138.  The comprehension asks math.isnan for the whole composite
\* array: numpy converts an array of one element to a scalar (newer
\* versions may refuse that too: size1_scalar) and raises TypeError for
\* more; with no stock the comprehension evaluates nothing.
calc_value_z_scores(stocks, size1_scalar) ==
  IF \E i \in DOMAIN stocks : "value_metrics" \notin DOMAIN stocks[i]
    THEN Raise("AttributeError", <<"'Stock' object has no attribute '", "value_metrics", "'">>)
    ELSE
      LET tickers == [i \in DOMAIN stocks |-> stocks[i].ticker]
          raw == [j \in DOMAIN ValueFields |->
                    [i \in DOMAIN stocks |->
                       nan_safe(getattr(stocks[i].value_metrics, ValueFields[j]))]]
          z == [j \in DOMAIN ValueFields |->
                  zscore(IF ValueFields[j] \in InvertedFields THEN Invert(raw[j]) ELSE raw[j])]
          composite == nanmean0(z, Len(stocks))
          Entry(i) == ZScoreResult(composite[1],
                                   [j \in DOMAIN ValueFields |-> raw[j][i]],
                                   [j \in DOMAIN ValueFields |-> z[j][i]]) IN
      IF Len(stocks) = 0 \/ (Len(stocks) = 1 /\ size1_scalar)
        THEN ReturnDict(DictOf(tickers, [i \in DOMAIN stocks |-> Entry(i)]))
        ELSE Raise("TypeError", <<"only length-1 arrays can be converted to Python scalars">>)

(***************************************************************************)
(* The metric classes (QualityMetrics.py 96-148): the attributes an        *)
(* instance has after its constructor ran.                                 *)
(***************************************************************************)
\* lines 108-135: the class attributes, then the assignments of __init__
ProfitabilityMetrics(ticker, earnings, gpoa, gpmar, roe, roa, cfoa, accruals) ==
  Object([ticker |-> ticker, earnings |-> earnings,
          gpoa_ttm |-> NoneV, gpmar_ttm |-> NoneV, roe_ttm |-> NoneV, roa_ttm |-> NoneV,
          gpoa |-> gpoa, gpmar |-> gpmar, roe |-> roe, roa |-> roa,
          cfoa |-> cfoa, accruals |-> accruals])

\* lines 138-148
GrowthMetrics(earnings_growth, gpoa_growth, roe_growth, roa_growth, cfoa_growth, gpmar_growth) ==
  Object([earnings_growth |-> earnings_growth, gpoa_growth |-> gpoa_growth,
          roe_growth |-> roe_growth, roa_growth |-> roa_growth,
          cfoa_growth |-> cfoa_growth, gpmar_growth |-> gpmar_growth])

\* lines 96-103
ValueMetrics(price_to_book, price_to_earnings) ==
  Object([price_to_book |-> price_to_book, price_to_earnings |-> price_to_earnings])

(***************************************************************************)
(* Inputs.                                                                 *)
(***************************************************************************)
AnnualObs == {R(1), R(2), NaN}

AnnualSeries == SeqsUpTo(AnnualObs, MaxLen)

\* Net Income is reported in other units than Basic EPS
Scale(s) == [i \in DOMAIN s |-> RMul(R(10), s[i])]

ColumnSets == SUBSET {"Basic EPS", "Net Income"}

Statement(cols, s) ==
  [c \in cols |-> IF c = "Net Income" THEN Scale(s) ELSE s]

EarningsTypes == {"eps", "net_income", "ebitda"}

SecondaryData == {NoData} \cup {Some(l) : l \in AnnualSeries}

QuarterObs == {R(1), R(3), NaN}

QuarterSeries == SeqsUpTo(QuarterObs, MaxQuarters)

ReportingPeriods == {"TTM", "ttm", "Annual", "Quarterly"}

QuarterArgs == {2, TRAILING_EPS_QUARTERS}

EarningsObs == {R(-2), R(-1), R(0), R(1), R(2)}

EarningsLists == {NoData} \cup {Some(l) : l \in SeqsUpTo(EarningsObs, MaxLen)}

GrowthObs == {R(-1), R(0), Frac(1, 2), R(3)}

GrowthLists == {NoData} \cup {Some(l) : l \in SeqsUpTo(GrowthObs, MaxLen)}

ColumnObs == {NaN, R(1), R(3), R(5), R(6)}

Columns == SeqsUpTo(ColumnObs, MaxUniverse)

\* the universes of the scoring passes: the stocks carry the tickers of
\* TickerNames in order; with dup the last stock repeats the first ticker
TickerNames == <<"AAA", "BBB", "CCC", "DDD", "EEE">>

UniverseTickers(n, dup) ==
  [i \in 1..n |-> IF dup /\ i = n /\ n > 1 THEN TickerNames[1] ELSE TickerNames[i]]

\* a stock whose group object is obj, or (hasattr FALSE) without the attribute
StockOf(ticker, attr_group, choice) ==
  IF choice.hasattr THEN [ticker |-> ticker] @@ (attr_group :> choice.obj)
  ELSE [ticker |-> ticker]

GroupChoices(objects) ==
  {[hasattr |-> TRUE, obj |-> o] : o \in objects} \cup {[hasattr |-> FALSE, obj |-> NoObject]}

Universe(attr_group, n, dup, c) ==
  [i \in 1..n |-> StockOf(UniverseTickers(n, dup)[i], attr_group, c[i])]

\* GrowthMetrics objects by their gpoa_growth and roe_growth
GrowthPairs == {<<FloatV(R(1)), FloatV(R(3))>>, <<FloatV(R(3)), FloatV(R(1))>>,
              <<FloatV(R(3)), TextV>>, <<FloatV(NaN), FloatV(R(1))>>, <<NoneV, TextV>>}

GrowthObjects ==
  {NoObject} \cup {GrowthMetrics(NoneV, g[1], g[2], NoneV, NoneV, NoneV) : g \in GrowthPairs}

GpoaObs == {FloatV(R(1)), FloatV(R(3))}

CfoaObs == {NoneV, FloatV(R(1)), FloatV(R(3))}

\* obj.gpoa_ttm = obj.gpoa, set by a caller after the construction
PopulateTtm(obj) == Object([obj.attrs EXCEPT !.gpoa_ttm = obj.attrs.gpoa])

ConstructedProfitability ==
  {ProfitabilityMetrics(TextV, NoneV, g, NoneV, NoneV, NoneV, c, NoneV) : g \in GpoaObs, c \in CfoaObs}

ProfitabilityObjects ==
  {NoObject} \cup ConstructedProfitability
    \cup {PopulateTtm(o) : o \in {c \in ConstructedProfitability : c.attrs.cfoa = NoneV}}

PeObs == {FloatV(R(1)), FloatV(R(3))}

EbitObs == {FloatV(NaN), FloatV(R(1)), FloatV(R(3))}

ValueObjects ==
  {NoObject, ValueMetrics(FloatV(R(1)), FloatV(R(3)))}
    \cup {Object([pe_trailing |-> a, pe_forward |-> NoneV, ebit_to_tev |-> b, pb_ratio |-> TextV]) :
            a \in PeObs, b \in EbitObs}

\* the z-scores of two sub-metrics handed to the aggregation
ZObsA == {NaN, R(-1), R(1)}

ZObsB == {NaN, Frac(1, 2), R(1)}

ZMatrices == UNION {{<<a, b>> : a \in [1..n -> ZObsA], b \in [1..n -> ZObsB]} : n \in 0..MaxUniverse}

(***************************************************************************)
(* The caller.                                                             *)
(***************************************************************************)
NoArgs == [none |-> TRUE]

Init ==
  /\ pc = "idle"
  /\ op = "none"
  /\ args = NoArgs
  /\ result = ReturnNone
  /\ av_calls = 0

CallGetEarnings ==
  /\ pc = "idle"
  /\ \E cols \in ColumnSets, s \in AnnualSeries, t \in Tickers,
        ty \in EarningsTypes, n \in 1..MaxHorizon, av \in SecondaryData :
       LET stock == [financials |-> Statement(cols, s)]
           o == get_earnings(stock, t, ty, n, av) IN
       /\ op' = "get_earnings"
       /\ args' = [stock |-> stock, ticker |-> t, earnings_type |-> ty,
                   earnings_period_req |-> n, av |-> av]
       /\ result' = o.result
       /\ av_calls' = o.av_calls
  /\ pc' = "done"

CallGetNetIncome ==
  /\ pc = "idle"
  /\ \E cols \in ColumnSets, q \in QuarterSeries, t \in Tickers, rp \in ReportingPeriods :
       LET stock == [financials |-> Statement(cols, Take(q, MaxLen)),
                     quarterly_financials |-> Statement(cols, q)] IN
       /\ op' = "get_net_income"
       /\ args' = [stock |-> stock, ticker |-> t, reporting_period |-> rp]
       /\ result' = get_net_income(stock, t, rp)
  /\ av_calls' = 0
  /\ pc' = "done"

CallCalcEpsTtm ==
  /\ pc = "idle"
  /\ \E cols \in ColumnSets, q \in QuarterSeries, t \in Tickers, k \in QuarterArgs :
       LET stock == [quarterly_financials |-> Statement(cols, q)] IN
       /\ op' = "calc_eps_ttm"
       /\ args' = [stock |-> stock, ticker |-> t, trailing_eps_quarters |-> k]
       /\ result' = calc_eps_ttm(stock, t, k)
  /\ av_calls' = 0
  /\ pc' = "done"

CallCalcEarningsGrowth ==
  /\ pc = "idle"
  /\ \E t \in Tickers, l \in EarningsLists :
       /\ op' = "calc_earnings_growth"
       /\ args' = [ticker |-> t, earnings_list |-> l]
       /\ result' = calc_earnings_growth(t, l)
  /\ av_calls' = 0
  /\ pc' = "done"

CallCalcEvar ==
  /\ pc = "idle"
  /\ \E t \in Tickers, g \in GrowthLists :
       /\ op' = "calc_evar"
       /\ args' = [ticker |-> t, earnings_growths_yoy |-> g]
       /\ result' = calc_evar(t, g)
  /\ av_calls' = 0
  /\ pc' = "done"

CallZscore ==
  /\ pc = "idle"
  /\ \E column \in Columns :
       /\ op' = "_zscore"
       /\ args' = [column |-> column]
       /\ result' = ReturnList(zscore(column))
  /\ av_calls' = 0
  /\ pc' = "done"

\* the caller has looked at the outcome and is ready for the next call
CallCalcValueZScores ==
  /\ pc = "idle"
  /\ \E n \in 0..MaxUniverse, dup \in BOOLEAN, size1_scalar \in BOOLEAN :
       \E c \in [1..n -> GroupChoices(ValueObjects)] :
         LET stocks == Universe("value_metrics", n, dup, c) IN
         /\ op' = "calc_value_z_scores"
         /\ args' = [stocks |-> stocks, size1_scalar |-> size1_scalar]
         /\ result' = calc_value_z_scores(stocks, size1_scalar)
  /\ pc' = "done"
  /\ UNCHANGED av_calls

CallCalcProfitabilityZScores ==
  /\ pc = "idle"
  /\ \E n \in 0..MaxUniverse, dup \in BOOLEAN :
       \E c \in [1..n -> GroupChoices(ProfitabilityObjects)] :
         LET stocks == Universe("profitability_metrics", n, dup, c) IN
         /\ op' = "calc_profitability_z_scores"
         /\ args' = [stocks |-> stocks]
         /\ result' = calc_profitability_z_scores(stocks)
  /\ pc' = "done"
  /\ UNCHANGED av_calls

CallCalcGrowthZScores ==
  /\ pc = "idle"
  /\ \E n \in 0..MaxUniverse, dup \in BOOLEAN :
       \E c \in [1..n -> GroupChoices(GrowthObjects)] :
         LET stocks == Universe("growth_metrics", n, dup, c) IN
         /\ op' = "calc_growth_z_scores"
         /\ args' = [stocks |-> stocks]
         /\ result' = calc_growth_z_scores(stocks)
  /\ pc' = "done"
  /\ UNCHANGED av_calls

\* the aggregation step alone, on the z-scores of two sub-metrics
CallNanmean ==
  /\ pc = "idle"
  /\ \E z_np \in ZMatrices :
       /\ op' = "nanmean"
       /\ args' = [z_np |-> z_np]
       /\ result' = ReturnList(nanmean0(z_np, Len(z_np[1])))
  /\ pc' = "done"
  /\ UNCHANGED av_calls

Finish ==
  /\ pc = "done"
  /\ pc' = "idle"
  /\ op' = "none"
  /\ args' = NoArgs
  /\ result' = ReturnNone
  /\ av_calls' = 0

Next ==
  \/ CallGetEarnings
  \/ CallGetNetIncome
  \/ CallCalcEpsTtm
  \/ CallCalcEarningsGrowth
  \/ CallCalcEvar
  \/ CallZscore
  \/ CallCalcValueZScores
  \/ CallCalcProfitabilityZScores
  \/ CallCalcGrowthZScores
  \/ CallNanmean
  \/ Finish

Spec == Init /\ [][Next]_vars

\* the caller of one component alone: the earnings reconciler, the derived
\* earnings metrics, the cross-sectional normaliser
NextReconciler ==
  \/ CallGetEarnings
  \/ Finish

SpecReconciler == Init /\ [][NextReconciler]_vars

NextDerived ==
  \/ CallGetNetIncome
  \/ CallCalcEpsTtm
  \/ CallCalcEarningsGrowth
  \/ CallCalcEvar
  \/ Finish

SpecDerived == Init /\ [][NextDerived]_vars

NextNormalizer ==
  \/ CallZscore
  \/ Finish

SpecNormalizer == Init /\ [][NextNormalizer]_vars

\* the caller of one scoring pass alone; the aggregation step goes with the
\* growth pass
NextValue ==
  \/ CallCalcValueZScores
  \/ Finish

SpecValue == Init /\ [][NextValue]_vars

NextProfitability ==
  \/ CallCalcProfitabilityZScores
  \/ Finish

SpecProfitability == Init /\ [][NextProfitability]_vars

NextGrowth ==
  \/ CallCalcGrowthZScores
  \/ CallNanmean
  \/ Finish

SpecGrowth == Init /\ [][NextGrowth]_vars

(***************************************************************************)
(* Properties of get_earnings.                                             *)
(***************************************************************************)
IsGetEarnings == pc = "done" /\ op = "get_earnings"

Recognised == args.earnings_type \in {"eps", "net_income"}

\* the column of the annual statement the earnings type asks for
Field == IF args.earnings_type = "eps" THEN "Basic EPS" ELSE "Net Income"

FieldPresent == Field \in DOMAIN args.stock.financials

\* the valid observations of the primary and of the secondary source
PrimaryValid == FilterNaN(args.stock.financials[Field])

SecondaryValid == FilterNaN(args.av.list)

FirstN(s) == SubSeq(s, 1, args.earnings_period_req)

\* C1: for both earnings types and every horizon N >= 1, when the primary
\* series has at least N valid observations the result is exactly its first
\* N valid observations and the secondary source is not called
C1_PrimarySufficient ==
  (IsGetEarnings /\ Recognised /\ FieldPresent
     /\ Len(PrimaryValid) >= args.earnings_period_req)
  => /\ ReturnedList(result)
     /\ Len(result.list) = args.earnings_period_req
     /\ result.list = FirstN(PrimaryValid)
     /\ av_calls = 0

\* the primary column holds a nan and more valid values than requested, and
\* the secondary source would have had a longer series
C1_Witness ==
  /\ IsGetEarnings /\ Recognised /\ FieldPresent
  /\ Len(args.stock.financials[Field]) > Len(PrimaryValid)
  /\ Len(PrimaryValid) > args.earnings_period_req
  /\ ~args.av.none /\ Len(SecondaryValid) > Len(PrimaryValid)
  /\ ReturnedList(result) /\ av_calls = 0

\* the secondary source was asked and answered
SecondaryConsulted == IsGetEarnings /\ Recognised /\ FieldPresent /\ av_calls = 1

\* C2: when the primary series has fewer than N valid observations and the
\* secondary source returns a list, the result is the secondary one exactly
\* when it has strictly more valid observations (its first N if it has N,
\* all of it otherwise); in every other case it is the whole primary series
C2_SecondaryPreferredIffLarger ==
  (SecondaryConsulted /\ Len(PrimaryValid) < args.earnings_period_req /\ ~args.av.none)
  => /\ ReturnedList(result)
     /\ Len(SecondaryValid) > Len(PrimaryValid)
          => result.list = (IF Len(SecondaryValid) >= args.earnings_period_req
                              THEN FirstN(SecondaryValid)
                              ELSE SecondaryValid)
     /\ Len(SecondaryValid) <= Len(PrimaryValid) => result.list = PrimaryValid

\* the secondary series is longer than the primary one and than the horizon
\* and is cut to the horizon
C2_Witness ==
  /\ SecondaryConsulted /\ ~args.av.none
  /\ Len(PrimaryValid) > 0
  /\ Len(SecondaryValid) > args.earnings_period_req
  /\ result.list = FirstN(SecondaryValid)
  /\ result.list # PrimaryValid

\* C3: when the primary series has fewer than N valid observations and the
\* secondary source returns None, the call returns the nan-filtered primary
\* series, whole and in order, and raises nothing, for both earnings types
C3_NoSecondaryDataReturnsPrimary ==
  (SecondaryConsulted /\ Len(PrimaryValid) < args.earnings_period_req /\ args.av.none)
  => /\ ReturnedList(result)
     /\ result.list = PrimaryValid

C3_Witness ==
  /\ SecondaryConsulted /\ args.av.none
  /\ args.earnings_type = "net_income"
  /\ Len(PrimaryValid) = 2
  /\ PrimaryValid[1] # PrimaryValid[2]
  /\ Len(args.stock.financials[Field]) > 2
  /\ result.list = PrimaryValid

\* C4: a series returned for a recognised earnings type has at most N
\* values, none of them nan, and is a prefix of the filtered primary series
\* or of the filtered secondary series
C4_ReturnedSeriesShape ==
  (IsGetEarnings /\ Recognised /\ ReturnedList(result))
  => /\ Len(result.list) <= args.earnings_period_req
     /\ \A i \in DOMAIN result.list : ~isnan(result.list[i])
     /\ \/ IsPrefix(result.list, PrimaryValid)
        \/ ~args.av.none /\ av_calls = 1 /\ IsPrefix(result.list, SecondaryValid)

\* a series shorter than the horizon taken from a secondary list that holds
\* a nan, which is no prefix of the primary series
C4_Witness ==
  /\ IsGetEarnings /\ Recognised /\ ReturnedList(result)
  /\ ~args.av.none
  /\ Len(args.av.list) > Len(SecondaryValid)
  /\ result.list = SecondaryValid
  /\ Len(result.list) < args.earnings_period_req
  /\ ~IsPrefix(result.list, PrimaryValid)

DomainError == IF args.earnings_type = "eps" THEN "EPSCalcError" ELSE "NetIncomeCalcError"

\* C5: when the column of the requested field is absent from the annual
\* statement, the call raises the error kind of the requested domain
\* (EPSCalcError for eps, NetIncomeCalcError for net_income) and the message
\* names the ticker
C5_MissingFieldErrorKind ==
  (IsGetEarnings /\ Recognised /\ ~FieldPresent)
  => /\ Raised(result)
     /\ result.exc = DomainError
     /\ NamesTicker(result, args.ticker)

(***************************************************************************)
(* Properties of calc_earnings_growth.                                     *)
(***************************************************************************)
IsGrowth == pc = "done" /\ op = "calc_earnings_growth"

NoZeroPrior(l) == \A i \in 2..Len(l) : ~RIsZero(l[i])

\* the sign of x - y
RCmp(x, y) ==
  LET d == x[1] * y[2] - y[1] * x[2] IN
  IF d > 0 THEN 1 ELSE IF d < 0 THEN -1 ELSE 0

\* C6: a series of L >= 2 values without a zero prior-period value gives
\* exactly L-1 growth values, the i-th being (value_i - value_i+1) /
\* abs(value_i+1); a series of fewer than 2 values, or None, raises
\* EarningsGrowthCalcError and returns nothing
C6_GrowthSeries ==
  IsGrowth =>
    LET l == args.earnings_list.list IN
    IF args.earnings_list.none \/ Len(l) < 2
      THEN Raised(result) /\ result.exc = "EarningsGrowthCalcError"
      ELSE NoZeroPrior(l) =>
             /\ ReturnedList(result)
             /\ Len(result.list) = Len(l) - 1
             /\ \A i \in 1..(Len(l) - 1) :
                  RMul(result.list[i], RAbs(l[i + 1])) = RSub(l[i], l[i + 1])

C6_Witness ==
  /\ IsGrowth /\ ~args.earnings_list.none
  /\ args.earnings_list.list = <<R(1), R(2), R(-2)>>
  /\ result.list = <<Frac(-1, 2), R(2)>>

\* C7: every growth value has the sign of (current - prior), whether the
\* prior value is positive or negative
C7_GrowthSign ==
  (IsGrowth /\ ReturnedList(result))
  => \A i \in DOMAIN result.list :
       RSign(result.list[i]) = RCmp(args.earnings_list.list[i], args.earnings_list.list[i + 1])

\* [2, -1] gives +3
C7_Witness ==
  /\ IsGrowth /\ ~args.earnings_list.none
  /\ args.earnings_list.list = <<R(2), R(-1)>>
  /\ result.list = <<R(3)>>

(***************************************************************************)
(* Properties of the trailing-twelve-month operations.                     *)
(***************************************************************************)
IsTtmCall ==
  /\ pc = "done"
  /\ \/ op = "calc_eps_ttm" /\ args.trailing_eps_quarters = 4
     \/ op = "get_net_income" /\ args.reporting_period \in {"TTM", "ttm"}

TtmField == IF op = "calc_eps_ttm" THEN "Basic EPS" ELSE "Net Income"

TtmValid == FilterNaN(args.stock.quarterly_financials[TtmField])

\* C8: the trailing-twelve-month operations return the sum of the first 4
\* valid quarterly observations; with fewer than 4 they return nothing and
\* raise an error whose message names the ticker and the 4 quarters required
C8_TrailingTwelveMonths ==
  (IsTtmCall /\ TtmField \in DOMAIN args.stock.quarterly_financials)
  => IF Len(TtmValid) >= 4
       THEN /\ ReturnedFloat(result)
            /\ result.num = RAdd(RAdd(RAdd(TtmValid[1], TtmValid[2]), TtmValid[3]), TtmValid[4])
       ELSE /\ Raised(result)
            /\ NamesTicker(result, args.ticker)
            /\ "4" \in Range(result.msg)

\* five valid quarters, of which the oldest is left out of the sum
C8_Witness ==
  /\ IsTtmCall /\ op = "calc_eps_ttm"
  /\ "Basic EPS" \in DOMAIN args.stock.quarterly_financials
  /\ args.stock.quarterly_financials["Basic EPS"] = <<R(1), R(3), R(1), R(1), R(3)>>
  /\ result.num = R(6)

(***************************************************************************)
(* Properties of calc_evar.                                                *)
(***************************************************************************)
IsEvar == pc = "done" /\ op = "calc_evar"

\* the sum of the squares of a list of floats
RECURSIVE SumSquares(_)
SumSquares(l) ==
  IF l = <<>> THEN R(0)
  ELSE RAdd(SumSquares(Tail(l)), RMul(Head(l), Head(l)))

\* C9: calc_evar raises EVARCalcError naming the ticker for None and for
\* fewer than 2 growth values, and succeeds for 2 or more, the radicand
\* being the sum of squared deviations from the mean divided by n - 1:
\* radicand * n * (n - 1) = n * sum(g^2) - sum(g)^2
C9_Evar ==
  IsEvar =>
    LET g == args.earnings_growths_yoy.list
        n == Len(g) IN
    IF args.earnings_growths_yoy.none \/ n < 2
      THEN /\ Raised(result)
           /\ result.exc = "EVARCalcError"
           /\ NamesTicker(result, args.ticker)
      ELSE /\ Returned(result) /\ result.type = "sqrt"
           /\ RMul(result.num, R(n * (n - 1)))
                = RSub(RMul(R(n), SumSquares(g)), RMul(SumSeq(g), SumSeq(g)))

\* growth [-1, 3]: mean 1, squared deviations 4 + 4, variance 8 / 1
C9_Witness ==
  /\ IsEvar /\ ~args.earnings_growths_yoy.none
  /\ args.earnings_growths_yoy.list = <<R(-1), R(3)>>
  /\ result.type = "sqrt" /\ result.num = R(8)

(***************************************************************************)
(* Properties of _zscore.                                                  *)
(***************************************************************************)
IsZscore == pc = "done" /\ op = "_zscore"

ColumnValid == FilterNaN(args.column)

AllNaN(l) == \A i \in DOMAIN l : isnan(l[i])

\* C10: a column with fewer than 2 valid values, or whose valid values are
\* all identical, gives a column of the same length that is nan at every
\* position
C10_DegenerateColumnAllNaN ==
  (IsZscore /\ (Len(ColumnValid) < 2 \/ \A i, j \in DOMAIN ColumnValid : ColumnValid[i] = ColumnValid[j]))
  => /\ Len(result.list) = Len(args.column)
     /\ AllNaN(result.list)

\* the mean of the valid values and their population standard deviation,
\* the divisor being the number of valid values, in floating point
PopulationMean(valid) == FDiv(FSum(valid), R(Len(valid)))

PopulationStd(valid) ==
  LET m == PopulationMean(valid)
      squares == [k \in DOMAIN valid |-> FMul(FSub(valid[k], m), FSub(valid[k], m))] IN
  FSqrt(FDiv(FSum(squares), R(Len(valid))))

NonDegenerate(valid) ==
  Len(valid) >= 2 /\ \E i, j \in DOMAIN valid : valid[i] # valid[j]

\* C11: for a column with at least 2 valid values that are not all equal,
\* the result has the length and the order of the column, is nan exactly at
\* the positions whose input is not valid, and is (value - mean) / std at
\* the others, mean and population std being those of the valid values only
C11_ZscoreOfValidValues ==
  (IsZscore /\ NonDegenerate(ColumnValid))
  => /\ ReturnedList(result)
     /\ Len(result.list) = Len(args.column)
     /\ \A i \in DOMAIN args.column :
          /\ isnan(result.list[i]) <=> isnan(args.column[i])
          /\ ~isnan(args.column[i]) =>
               result.list[i] = FDiv(FSub(args.column[i], PopulationMean(ColumnValid)),
                                     PopulationStd(ColumnValid))

C11_Witness ==
  /\ IsZscore
  /\ args.column = <<R(1), NaN, R(5)>>
  /\ result.list = <<R(-1), NaN, R(1)>>

(***************************************************************************)
(* Properties of the scoring passes.                                       *)
(***************************************************************************)
IsGrowthPass == pc = "done" /\ op = "calc_growth_z_scores"

IsNanmean == pc = "done" /\ op = "nanmean"

\* the arithmetic mean of the z-scores that are not nan, nan when there is
\* none
MeanOfValid(zs) ==
  LET valid == FilterNaN(zs) IN
  IF Len(valid) = 0 THEN NaN ELSE FDiv(FSum(valid), R(Len(valid)))

\* C12: the composite of each ticker is the arithmetic mean of its
\* sub-metric z-scores that are not nan, the nan ones left out of the sum
\* and of the count, and is nan exactly when all of them are nan; the
\* z-scores [1, nan, -1] and [nan, 0.5, 1] give the composites [1, 0.5, 0]
C12_CompositeIsNanSkippingMean ==
  /\ (IsGrowthPass /\ ReturnedDict(result)) =>
       \A t \in DOMAIN result.list :
         /\ result.list[t].composite = MeanOfValid(result.list[t].zscores)
         /\ isnan(result.list[t].composite) <=> AllNaN(result.list[t].zscores)
  /\ IsNanmean =>
       /\ \A i \in DOMAIN result.list :
            /\ result.list[i] = MeanOfValid(<<args.z_np[1][i], args.z_np[2][i]>>)
            /\ isnan(result.list[i]) <=> (isnan(args.z_np[1][i]) /\ isnan(args.z_np[2][i]))
       /\ args.z_np = <<(<<R(1), NaN, R(-1)>>), (<<NaN, Frac(1, 2), R(1)>>)>>
            => result.list = <<R(1), Frac(1, 2), R(0)>>

\* three stocks: gpoa_growth 1, 3, nan and roe_growth 3, 'n/a', 1
C12_Witness ==
  /\ IsGrowthPass /\ ReturnedDict(result)
  /\ DOMAIN result.list = {"AAA", "BBB", "CCC"}
  /\ result.list["AAA"].zscores = <<R(-1), R(1), NaN, NaN, NaN>>
  /\ result.list["BBB"].zscores = <<R(1), NaN, NaN, NaN, NaN>>
  /\ result.list["CCC"].zscores = <<NaN, R(-1), NaN, NaN, NaN>>
  /\ result.list["AAA"].composite = R(0)
  /\ result.list["BBB"].composite = R(1)
  /\ result.list["CCC"].composite = R(-1)

C12_Example ==
  /\ IsNanmean
  /\ args.z_np = <<(<<R(1), NaN, R(-1)>>), (<<NaN, Frac(1, 2), R(1)>>)>>

IsValuePass == pc = "done" /\ op = "calc_value_z_scores"

TickersOf(stocks) == {stocks[i].ticker : i \in DOMAIN stocks}

DistinctTickers(stocks) ==
  \A i, j \in DOMAIN stocks : stocks[i].ticker = stocks[j].ticker => i = j

\* every stock has the attribute of the metric group
HasGroup(stocks, attr_group) == \A i \in DOMAIN stocks : attr_group \in DOMAIN stocks[i]

\* C13: for a universe of any size (0, 1, 2 or more stocks with distinct
\* tickers) calc_value_z_scores returns a mapping with one result per
\* ticker, whose composite is the mean of the ticker's four value z-scores
\* that are not nan, and nan when all four are nan
C13_ValuePassCompletes ==
  (IsValuePass /\ HasGroup(args.stocks, "value_metrics") /\ DistinctTickers(args.stocks))
  => /\ ReturnedDict(result)
     /\ DOMAIN result.list = TickersOf(args.stocks)
     /\ \A t \in DOMAIN result.list :
          result.list[t].composite = MeanOfValid(result.list[t].zscores)

IsProfitabilityPass == pc = "done" /\ op = "calc_profitability_z_scores"

\* what the pass reads of stock i for a metric: _nan_safe of the attribute
RawOf(stocks, i, attr_group, name) == nan_safe(getattr(stocks[i][attr_group], name))

\* the position in the list of the stock whose result the ticker keeps
LastOf(stocks, t) ==
  CHOOSE i \in DOMAIN stocks :
    stocks[i].ticker = t /\ \A k \in DOMAIN stocks : stocks[k].ticker = t => k <= i

\* in the results, the metric at position j is ordered as the raw values
\* (sign 1) or against them (sign -1) wherever the z-scores are not nan
Ordered(results, j, sign) ==
  \A t, u \in DOMAIN results :
    (RCmp(results[t].raw[j], results[u].raw[j]) < 0 /\ ~isnan(results[t].zscores[j]))
      => RCmp(results[t].zscores[j], results[u].zscores[j]) * sign <= 0

InvertedStrictly(results, j) ==
  \A t, u \in DOMAIN results :
    (RCmp(results[t].raw[j], results[u].raw[j]) < 0 /\ ~isnan(results[t].zscores[j]))
      => RCmp(results[t].zscores[j], results[u].zscores[j]) > 0

\* C14: in the value pass pe_trailing, pe_forward and pb_ratio are negated
\* before they are z-scored, so of two tickers with valid values in a column
\* that is not degenerate the one with the smaller raw ratio has the
\* strictly larger z-score; ebit_to_tev and the profitability and growth
\* metrics are not inverted; the raw values of the detail are the original
\* values
C14_InvertedRatios ==
  /\ (/\ IsValuePass /\ HasGroup(args.stocks, "value_metrics") /\ DistinctTickers(args.stocks)
      /\ \E i, k \in DOMAIN args.stocks :
           RCmp(RawOf(args.stocks, i, "value_metrics", "pe_trailing"),
                RawOf(args.stocks, k, "value_metrics", "pe_trailing")) < 0)
     => /\ ReturnedDict(result)
        /\ DOMAIN result.list = TickersOf(args.stocks)
        /\ InvertedStrictly(result.list, 1)
        /\ InvertedStrictly(result.list, 2)
        /\ Ordered(result.list, 3, 1)
        /\ InvertedStrictly(result.list, 4)
        /\ \A t \in DOMAIN result.list : \A j \in DOMAIN ValueFields :
             result.list[t].raw[j] =
               RawOf(args.stocks, LastOf(args.stocks, t), "value_metrics", ValueFields[j])
  /\ ((IsProfitabilityPass \/ IsGrowthPass) /\ ReturnedDict(result))
     => \A j \in 1..5 : Ordered(result.list, j, 1)

IsScoringPass == IsValuePass \/ IsProfitabilityPass \/ IsGrowthPass

\* the metric group a pass reads and the metrics it reads of it
GroupOf(pass) ==
  IF pass = "calc_value_z_scores" THEN "value_metrics"
  ELSE IF pass = "calc_profitability_z_scores" THEN "profitability_metrics"
  ELSE "growth_metrics"

FieldsOf(pass) ==
  IF pass = "calc_value_z_scores" THEN ValueFields
  ELSE IF pass = "calc_profitability_z_scores" THEN ProfitabilityFields
  ELSE GrowthFields

\* the metric of the stock is unavailable: the stock has no group object
\* (absent or None), or the attribute is absent, None, nan or not numeric
Unavailable(stock, attr_group, name) ==
  \/ attr_group \notin DOMAIN stock
  \/ isnan(nan_safe(getattr(stock[attr_group], name)))

\* C15: in a scoring pass a ticker whose value for a metric is unavailable
\* is recorded with raw nan and z-score nan for that metric, and the pass
\* completes with a result for every ticker
C15_UnavailableMetricIsNaN ==
  (/\ IsScoringPass
   /\ \E i \in DOMAIN args.stocks : \E j \in DOMAIN FieldsOf(op) :
        Unavailable(args.stocks[i], GroupOf(op), FieldsOf(op)[j]))
  => /\ ReturnedDict(result)
     /\ DOMAIN result.list = TickersOf(args.stocks)
     /\ \A i \in DOMAIN args.stocks : \A j \in DOMAIN FieldsOf(op) :
          (i = LastOf(args.stocks, args.stocks[i].ticker)
            /\ Unavailable(args.stocks[i], GroupOf(op), FieldsOf(op)[j]))
          => /\ isnan(result.list[args.stocks[i].ticker].raw[j])
             /\ isnan(result.list[args.stocks[i].ticker].zscores[j])

\* the same for the universes in which every stock has the attribute of the
\* metric group
C15_WithGroupAttribute ==
  (IsScoringPass /\ HasGroup(args.stocks, GroupOf(op))) => C15_UnavailableMetricIsNaN

(***************************************************************************)
(* Properties of every public operation of the earnings module.            *)
(***************************************************************************)
EarningsOperations ==
  {"get_earnings", "get_net_income", "calc_eps_ttm", "calc_earnings_growth", "calc_evar"}

IsEarningsCall == pc = "done" /\ op \in EarningsOperations

\* lines 61-101
ErrorKinds == {"EPSCalcError", "NetIncomeCalcError", "EVARCalcError", "EarningsGrowthCalcError"}

\* C16: a failure signalled by a public operation of the earnings module is
\* one of the four error kinds of the module and carries the ticker in its
\* message
C16_OnlyDomainErrors ==
  (IsEarningsCall /\ Raised(result))
  => /\ result.exc \in ErrorKinds
     /\ NamesTicker(result, args.ticker)

\* the same without get_net_income
C16_ExceptNetIncome ==
  (IsEarningsCall /\ op # "get_net_income") => C16_OnlyDomainErrors

\* C17: every call of a public operation of the earnings module ends by
\* returning an actual value or by raising; it never returns None
C17_ValueOrRaise ==
  IsEarningsCall => (Raised(result) \/ (Returned(result) /\ result.type # "None"))

\* the same for the earnings types and the reporting periods the code knows
C17_KnownArguments ==
  (/\ IsEarningsCall
   /\ op = "get_earnings" => args.earnings_type \in {"eps", "net_income"}
   /\ op = "get_net_income" => Lower(args.reporting_period) \in {"ttm", "annual"})
  => C17_ValueOrRaise

\* the column a pass z-scores for the metric at position j: the values read
\* of every stock of the list, negated for the inverted value ratios
ScoredColumn(pass, stocks, j) ==
  LET col == [i \in DOMAIN stocks |-> RawOf(stocks, i, GroupOf(pass), FieldsOf(pass)[j])] IN
  IF pass = "calc_value_z_scores" /\ FieldsOf(pass)[j] \in InvertedFields THEN Invert(col) ELSE col

\* C19: the result of a scoring pass has exactly one entry per distinct
\* ticker; when a ticker occurs more than once in the list, every occurrence
\* counts in the mean and the deviation of the columns, the entry kept is
\* the one of the last occurrence, and the result has fewer entries than
\* the list has stocks
C19_OneEntryPerTicker ==
  (IsScoringPass /\ HasGroup(args.stocks, GroupOf(op)) /\ ~DistinctTickers(args.stocks))
  => /\ ReturnedDict(result)
     /\ DOMAIN result.list = TickersOf(args.stocks)
     /\ Cardinality(DOMAIN result.list) < Len(args.stocks)
     /\ \A t \in DOMAIN result.list : \A j \in DOMAIN FieldsOf(op) :
          LET last == LastOf(args.stocks, t) IN
          /\ result.list[t].raw[j] = RawOf(args.stocks, last, GroupOf(op), FieldsOf(op)[j])
          /\ result.list[t].zscores[j] = zscore(ScoredColumn(op, args.stocks, j))[last]
          /\ result.list[t].composite = MeanOfValid(result.list[t].zscores)

\* the same for the two passes of the generic aggregator
C19_GenericPasses ==
  (IsProfitabilityPass \/ IsGrowthPass) => C19_OneEntryPerTicker

\* the attributes the constructor of ProfitabilityMetrics leaves at the
\* class default
TtmFields == {"gpoa_ttm", "roe_ttm", "roa_ttm", "gpmar_ttm"}

\* a ProfitabilityMetrics object populated through the constructor only
ConstructorOnly(obj) == ~obj.none /\ \A name \in TtmFields : obj.attrs[name] = NoneV

\* the position of cfoa among the metrics read
CfoaIndex == CHOOSE j \in DOMAIN ProfitabilityFields : ProfitabilityFields[j] = "cfoa"

\* C20: the profitability pass reads gpoa_ttm, roe_ttm, roa_ttm, cfoa and
\* gpmar_ttm, and the constructor of ProfitabilityMetrics leaves the four
\* *_ttm attributes at None; for a universe of objects populated through
\* the constructor only, these four columns are all nan and the composite
\* of every ticker is its z-score of cfoa (nan when that is nan)
C20_CompositeIsCfoaAlone ==
  (/\ IsProfitabilityPass
   /\ HasGroup(args.stocks, "profitability_metrics")
   /\ \A i \in DOMAIN args.stocks : ConstructorOnly(args.stocks[i].profitability_metrics))
  => /\ ReturnedDict(result)
     /\ DOMAIN result.list = TickersOf(args.stocks)
     /\ \A t \in DOMAIN result.list :
          /\ \A j \in DOMAIN ProfitabilityFields :
               ProfitabilityFields[j] \in TtmFields
                 => (isnan(result.list[t].raw[j]) /\ isnan(result.list[t].zscores[j]))
          /\ result.list[t].composite = result.list[t].zscores[CfoaIndex]

\* two constructed objects with gpoa 1 and 3, cfoa 1 and 3
C20_Witness ==
  /\ IsProfitabilityPass /\ ReturnedDict(result)
  /\ Len(args.stocks) = 2
  /\ \A i \in DOMAIN args.stocks :
       /\ "profitability_metrics" \in DOMAIN args.stocks[i]
       /\ ConstructorOnly(args.stocks[i].profitability_metrics)
  /\ args.stocks[1].profitability_metrics.attrs.gpoa = FloatV(R(1))
  /\ args.stocks[2].profitability_metrics.attrs.gpoa = FloatV(R(3))
  /\ DOMAIN result.list = {"AAA", "BBB"}
  /\ result.list["AAA"].zscores = <<NaN, NaN, NaN, R(-1), NaN>>
  /\ result.list["AAA"].composite = R(-1)
  /\ result.list["BBB"].composite = R(1)

(***************************************************************************)
(* Properties of calc_earnings_growth with a zero prior-period value.      *)
(***************************************************************************)
\* C21: when a prior-period value used as a denominator (an element of the
\* series other than the first) is zero, calc_earnings_growth returns no
\* growth list, not even the growth values of the pairs before the zero:
\* the division failure is re-raised as EarningsGrowthCalcError naming the
\* ticker
C21_ZeroPriorRaises ==
  (/\ IsGrowth
   /\ ~args.earnings_list.none
   /\ Len(args.earnings_list.list) >= MIN_EARNINGS_DATA_POINTS
   /\ ~NoZeroPrior(args.earnings_list.list))
  => /\ Raised(result)
     /\ result.list = <<>>
     /\ result.exc = "EarningsGrowthCalcError"
     /\ NamesTicker(result, args.ticker)
     /\ "float division by zero" \in Range(result.msg)

\* [1, 2, 0]: the pair (1, 2) has a growth value, the pair (2, 0) divides
\* by zero
C21_Witness ==
  /\ IsGrowth /\ ~args.earnings_list.none
  /\ args.ticker = "BBB"
  /\ args.earnings_list.list = <<R(1), R(2), R(0)>>
  /\ Raised(result)
  /\ result.msg = <<"Error calculating Earnings Growth for ", "BBB", ": ", "float division by zero">>

====
